---- MODULE Spec2Model ----
(***************************************************************************)
(* Model of node-red-ads-eventlogger: the connection config node           *)
(* (src/src/ads-eventlogger-connection.js), which owns the ADS session and *)
(* the single shared subscription, and the subscribe nodes                 *)
(* (src/src/ads-eventlogger-subscribe.js) that register with it.           *)
(*                                                                         *)
(* JavaScript runs one callback to completion, so an action is everything  *)
(* a handler does up to its next await.  The transport                     *)
(* (ads-client) is the environment: it settles connect, subscribeRaw and   *)
(* unsubscribe requests with either outcome, at any time after the call    *)
(* (also after the session the request was made on has ended), and fires   *)
(* connect/disconnect signals.  A subscription is live at the transport    *)
(* from the moment subscribeRaw resolved on the current session until an   *)
(* unsubscribe of it succeeds or the session ends.                         *)
(*                                                                         *)
(* An async handler gives up control at every await, also at one of a      *)
(* promise that is already settled, so a handler is split into one action  *)
(* per stretch between awaits wherever the rest of it reads or writes the  *)
(* state.  Nothing in the nodes serialises the handlers of a subscribe     *)
(* node: an input can arrive while an earlier input handler or the close   *)
(* handler of the same node is still between two awaits.                   *)
(***************************************************************************)
EXTENDS Integers, FiniteSets, Sequences, TLC

\* ---- bounds ------------------------------------------------------------
NumNodes == 2        \* subscribe nodes wired to the connection node
MaxHandles == 2      \* subscribeRaw requests issued in one run
MaxCount == 3        \* cap of subscriberCount
MaxJoined == 2       \* connect() calls that wait for an attempt already in flight
MaxInputs == 1       \* input handlers in flight at once, of all subscribe nodes (they still overlap the close handlers)

Nodes == 1..NumNodes
Ids == 1..MaxHandles

\* `_subscribing` when it holds the promise of an attempt that threw before
\* reaching the transport (adsClient was null): nothing ever clears it.
Rejected == 0 - 1

VARIABLES
  adsClient,               \* this.adsClient !== null
  connecting,              \* this.connecting: "none" | "teardown" | "connect" | "resolved" | "rejected"
  retryTimer,              \* retry timers pending (this.retryTimer is the newest)
  attempts,                \* _connect invocations in flight
  joined,                  \* connect() calls awaiting an attempt another call started
  lastEmitted,             \* value of the last "connected" event: "none" | "true" | "false"
  connected,               \* this.connected
  firstConnectedEventSent, \* this.firstConnectedEventSent
  subscription,            \* this._subscription: 0 (null) or a handle id
  subscriberCount,         \* this._subscriberCount
  subscribing,             \* this._subscribing: 0 (null), a request id, Rejected
  closeSt,                 \* connection node close handler: "open" | "closing" | "closed"
  tState,                  \* the ads-client object: "idle" | "connecting" | "connected" | "lost" | "failed" | "closed"
  clientClosing,           \* disconnect() was called on the current client object
  closeClient,             \* the client whose disconnect() the close handler awaits is still this.adsClient
  subPending,              \* subscribeRaw requests the transport has not settled
  onCur,                   \* requests issued on the current session
  live,                    \* subscriptions live at the transport on the current session
  nextId,                  \* subscribeRaw requests issued so far
  nodeSt,                  \* subscribe node: "absent" | "live" | "closing" | "closed"
  nodeH,                   \* handle whose unsubscribe() the node's close handler awaits
  inputH,                  \* per node and handle: input handlers awaiting its unsubscribe()
  resuming,                \* per node: input handlers past unsubscribe(), before subscribe()
  waitSub,                 \* subscribe requests the node's subscribe() calls await
  last,                    \* the handler that ran last and what it did
  tracking,                \* whether this run keeps, instead of last, the two history variables below
  registered,              \* nodes whose last call was addSubscriber, not removeSubscriber
  subFailed,               \* a subscribeRaw request was rejected; none succeeded or was issued since
  minSeverity,             \* subscribe node: node.minSeverity
  step,                    \* the notification or buffer handled last and its result
  received,                \* notifications the transport delivered, oldest first
  sent,                    \* messages the subscribe node sent, oldest first
  events,                  \* history node: the events array
  maxEvents,               \* history node: maxEvents
  hstep                    \* history node: the input handled last

\* the connection node and the subscribe nodes registered with it
linkVars == <<adsClient, connecting, retryTimer, attempts, joined, lastEmitted,
              connected, firstConnectedEventSent,
              subscription, subscriberCount, subscribing, closeSt, tState,
              clientClosing, closeClient, subPending, onCur, live, nextId,
              nodeSt, nodeH, inputH, resuming, waitSub, last, tracking,
              registered, subFailed>>

\* a subscribe node's notification handler
decodeVars == <<minSeverity, step, received, sent>>

\* the history node
historyVars == <<events, maxEvents, hstep>>

vars == <<linkVars, decodeVars, historyVars>>

\* ---- the connection node's subscription state as a value ---------------
\* Handlers call each other synchronously (emit -> subscribe -> addSubscriber
\* -> _subscribe), so they are operators over this record.
Broker ==
  [count |-> subscriberCount, sub |-> subscription, ing |-> subscribing,
   pend |-> subPending, cur |-> onCur, next |-> nextId, wait |-> waitSub,
   connected |-> connected, first |-> firstConnectedEventSent,
   calls |-> 0, emitted |-> "none", sig |-> "none", unsubCalled |-> 0,
   started |-> FALSE, join |-> FALSE, failed |-> FALSE, rejectedTo |-> {},
   reg |-> registered]

\* this.isConnected(): adsClient !== null && adsClient.connection.connected
isConnected == adsClient /\ tState = "connected"

\* the node's listeners are on the connection node's emitter: from the
\* constructor until the close handler removes them
Listening(n) == nodeSt[n] = "live"

\* what the subscribe nodes' handlers are in the middle of
nodeVars == <<nodeSt, nodeH, inputH, resuming>>

Max(a, b) == IF a >= b THEN a ELSE b

\* a caller starts awaiting the promise of request id
Await(w, who, id) == IF who \in Nodes THEN [w EXCEPT ![who] = @ \cup {id}] ELSE w

\* ---- connection node: shared subscription management -------------------

\* _subscribe without the check of the attempt in progress
_subscribe_noSingleFlight(b, who, hasClient) ==
  IF b.sub # 0 THEN b
  ELSE IF ~hasClient THEN [b EXCEPT !.sub = 0, !.ing = Rejected]
  ELSE LET id == b.next + 1 IN
       [b EXCEPT !.ing = id, !.pend = @ \cup {id}, !.cur = @ \cup {id},
                 !.next = id, !.calls = @ + 1, !.wait = Await(@, who, id)]

\* this._subscribe, up to its await of adsClient.subscribeRaw.  With a null
\* adsClient the attempt throws before the await: catch and finally run
\* first, then the rejected promise is assigned to _subscribing.
_subscribe(b, who, hasClient) ==
  IF b.sub # 0 THEN b
  ELSE IF b.ing # 0 THEN
    (IF b.ing = Rejected THEN b ELSE [b EXCEPT !.wait = Await(@, who, b.ing)])
  ELSE IF ~hasClient THEN [b EXCEPT !.sub = 0, !.ing = Rejected]
  ELSE LET id == b.next + 1 IN
       [b EXCEPT !.ing = id, !.pend = @ \cup {id}, !.cur = @ \cup {id},
                 !.next = id, !.calls = @ + 1, !.wait = Await(@, who, id)]

\* this._unsubscribe, up to its await of _subscription.unsubscribe()
_unsubscribe(b) ==
  IF b.sub = 0 THEN b
  ELSE [b EXCEPT !.unsubCalled = b.sub]

\* the rest of _unsubscribe that keeps the handle when unsubscribe() failed
_unsubscribed_keepsHandleOnError(b, ok) ==
  [b EXCEPT !.sub = IF ok THEN 0 ELSE @, !.failed = ~ok]

\* the rest of this._unsubscribe, after _subscription.unsubscribe() settled:
\* an error is caught and logged, the handle is cleared either way
_unsubscribed(b, ok) == [b EXCEPT !.sub = 0, !.failed = ~ok]

\* the rest of the attempt that leaves _subscribing set when subscribeRaw failed
subscribeRawSettled_keepsMarker(b, id, ok) ==
  [b EXCEPT !.sub = IF ok THEN id ELSE 0,
            !.ing = IF ok THEN 0 ELSE @,
            !.pend = @ \ {id},
            !.wait = [n \in Nodes |-> @[n] \ {id}],
            !.failed = ~ok,
            !.rejectedTo = IF ok THEN {} ELSE {n \in Nodes : id \in b.wait[n]}]

\* the rest of the attempt started by _subscribe, after subscribeRaw settled:
\* the handle is stored, or null on failure and the error thrown to every
\* caller awaiting the attempt; finally _subscribing is cleared
subscribeRawSettled(b, id, ok) ==
  [b EXCEPT !.sub = IF ok THEN id ELSE 0,
            !.ing = 0,
            !.pend = @ \ {id},
            !.wait = [n \in Nodes |-> @[n] \ {id}],
            !.failed = ~ok,
            !.rejectedTo = IF ok THEN {} ELSE {n \in Nodes : id \in b.wait[n]}]

\* addSubscriber without the check of the connection
addSubscriber_ignoresConnection(b, who, isConn) ==
  LET b1 == [b EXCEPT !.count = @ + 1] IN
  IF b1.sub # 0 THEN b1 ELSE _subscribe(b1, who, TRUE)

\* this.addSubscriber
addSubscriber(b, who, isConn) ==
  LET b1 == [b EXCEPT !.count = @ + 1] IN
  IF b1.sub # 0 THEN b1
  ELSE IF ~isConn THEN b1
  ELSE _subscribe(b1, who, TRUE)

\* removeSubscriber without the floor at 0
removeSubscriber_noFloor(b) ==
  LET b1 == [b EXCEPT !.count = @ - 1] IN
  IF b1.count = 0 /\ b1.sub # 0 THEN _unsubscribe(b1) ELSE b1

\* this.removeSubscriber
removeSubscriber(b) ==
  LET b1 == [b EXCEPT !.count = Max(0, @ - 1)] IN
  IF b1.count = 0 /\ b1.sub # 0 THEN _unsubscribe(b1) ELSE b1

\* ---- subscribe node ----------------------------------------------------

\* subscribe(): registers with the connection node; a failure is only shown
\* in the node status
subscribe(b, n, isConn) ==
  [addSubscriber(b, n, isConn) EXCEPT !.reg = @ \cup {n}]

\* unsubscribe()
unsubscribe(b) == removeSubscriber(b)

\* node n is about to call removeSubscriber: it no longer counts as registered
Leaving(b, n) == [b EXCEPT !.reg = @ \ {n}]

\* onConnectionStateChange(connected), the node's "connected" listener
onConnectionStateChange(b, n, c, isConn) ==
  IF c THEN subscribe(b, n, isConn) ELSE b

\* eventEmitter.emit("connected", c): the listeners of nodes k..NumNodes run
\* one after the other
RECURSIVE EmitConnected(_, _, _, _, _)
EmitConnected(b, c, k, ls, isConn) ==
  IF k > NumNodes THEN b
  ELSE EmitConnected(IF k \in ls THEN onConnectionStateChange(b, k, c, isConn) ELSE b,
                     c, k + 1, ls, isConn)

\* the event emitted on every signal
emitIfChanged_always(b, c, ls, isConn) ==
  [EmitConnected(b, c, 1, ls, isConn) EXCEPT !.emitted = IF c THEN "true" ELSE "false"]

\* the first statement of onConnectedStateChange: "connected" is emitted
\* when the value differs from this.connected or nothing was emitted yet
emitIfChanged(b, c, ls, isConn) ==
  IF b.connected # c \/ ~b.first
  THEN [EmitConnected(b, c, 1, ls, isConn) EXCEPT
          !.emitted = IF c THEN "true" ELSE "false"]
  ELSE b

\* onConnectedStateChange that keeps the handle on a disconnect
onConnectedStateChange_keepsHandle(b, c, ls, hasClient, isConn) ==
  LET b1 == emitIfChanged(b, c, ls, isConn)
      b2 == [b1 EXCEPT !.connected = c, !.first = TRUE,
                       !.sig = IF c THEN "up" ELSE "down"]
  IN IF c
     THEN (IF b2.count > 0 /\ b2.sub = 0 THEN _subscribe(b2, 0, hasClient) ELSE b2)
     ELSE b2

\* this.onConnectedStateChange(c), called on the client's connect and
\* disconnect signals and on a failed connect
onConnectedStateChange(b, c, ls, hasClient, isConn) ==
  LET b1 == emitIfChanged(b, c, ls, isConn)
      b2 == [b1 EXCEPT !.connected = c, !.first = TRUE,
                       !.sig = IF c THEN "up" ELSE "down"]
  IN IF c
     THEN (IF b2.count > 0 /\ b2.sub = 0 THEN _subscribe(b2, 0, hasClient) ELSE b2)
     ELSE [b2 EXCEPT !.sub = 0]

\* ---- writing a handler's result back -----------------------------------
Within(b) ==
  /\ b.next <= MaxHandles
  /\ b.count <= MaxCount

Listeners == {n \in Nodes : Listening(n)}

\* unsubscribe() calls made on handle h that the transport has not settled:
\* each is awaited by the node whose handler made it
UnsubscribeCalls(h) ==
  LET calls[k \in 0..NumNodes] ==
        IF k = 0 THEN 0
        ELSE calls[k - 1] + inputH[k][h] + (IF nodeH[k] = h THEN 1 ELSE 0)
  IN calls[NumNodes]

\* input handlers of node n that have not returned
InFlight(n) ==
  LET waiting[k \in 0..MaxHandles] ==
        IF k = 0 THEN 0 ELSE waiting[k - 1] + inputH[n][k]
  IN waiting[MaxHandles] + resuming[n]

\* input handlers of all nodes that have not returned
InputsInFlight ==
  LET sum[k \in 0..NumNodes] == IF k = 0 THEN 0 ELSE sum[k - 1] + InFlight(k)
  IN sum[NumNodes]

Did(op, n, b) ==
  [op |-> op, n |-> n, c0 |-> subscriberCount, sub0 |-> subscription,
   ing0 |-> subscribing, calls |-> b.calls, unsub |-> b.unsubCalled,
   emitted |-> b.emitted, sig |-> b.sig,
   started |-> b.started, join |-> b.join, failed |-> b.failed,
   rejectedTo |-> b.rejectedTo,
   emitted0 |-> lastEmitted, timers0 |-> retryTimer, joined0 |-> joined]

Commit(op, n, b) ==
  /\ Within(b)
  /\ subscriberCount' = b.count
  /\ subscription' = b.sub
  /\ subscribing' = b.ing
  /\ subPending' = b.pend
  /\ onCur' = b.cur
  /\ nextId' = b.next
  /\ waitSub' = b.wait
  /\ connected' = b.connected
  /\ firstConnectedEventSent' = b.first
  /\ lastEmitted' = IF b.emitted = "none" THEN lastEmitted ELSE b.emitted
  /\ last' = IF tracking THEN last ELSE Did(op, n, b)
  /\ tracking' = tracking
  /\ registered' = IF tracking THEN b.reg ELSE registered
  /\ subFailed' = IF ~tracking THEN subFailed
                  ELSE IF op = "SubscribeRawReject" THEN TRUE
                  ELSE IF op = "SubscribeRawResolve" \/ b.calls > 0 THEN FALSE
                  ELSE subFailed
  /\ UNCHANGED <<decodeVars, historyVars>>

\* the session of the current client ended: its subscriptions are gone
EndSession(b) == [b EXCEPT !.cur = {}]

LinkStart(track) ==
  \* the constructor ends with this.connect(): a client exists and its
  \* connect() is awaited
  /\ tracking = track
  /\ adsClient = TRUE
  /\ connecting = "connect"
  /\ retryTimer = 0
  /\ attempts = 1
  /\ joined = 0
  /\ lastEmitted = "none"
  /\ connected = FALSE
  /\ firstConnectedEventSent = FALSE
  /\ subscription = 0
  /\ subscriberCount = 0
  /\ subscribing = 0
  /\ closeSt = "open"
  /\ tState = "connecting"
  /\ clientClosing = FALSE
  /\ closeClient = FALSE
  /\ subPending = {}
  /\ onCur = {}
  /\ live = {}
  /\ nextId = 0
  /\ nodeSt = [n \in Nodes |-> "absent"]
  /\ nodeH = [n \in Nodes |-> 0]
  /\ inputH = [n \in Nodes |-> [h \in Ids |-> 0]]
  /\ resuming = [n \in Nodes |-> 0]
  /\ waitSub = [n \in Nodes |-> {}]
  /\ registered = {}
  /\ subFailed = FALSE
  /\ last = [op |-> "init", n |-> 0, c0 |-> 0, sub0 |-> 0, ing0 |-> 0,
             calls |-> 0, unsub |-> 0, emitted |-> "none", sig |-> "none",
             started |-> TRUE, join |-> FALSE, failed |-> FALSE,
             rejectedTo |-> {}, emitted0 |-> "none", timers0 |-> 0, joined0 |-> 0]

\* a run that does not keep the history variables
LinkInit == LinkStart(FALSE)

\* no notification handled, no history input handled
NoStep == [op |-> "none"]

\* a subscribe node with the default minSeverity before its first notification
DecodeIdle ==
  /\ minSeverity = 0
  /\ step = NoStep
  /\ received = <<>>
  /\ sent = <<>>

\* a history node with the default maxEvents and nothing stored
HistoryIdle ==
  /\ events = <<>>
  /\ maxEvents = 1000
  /\ hstep = NoStep

Init == LinkInit /\ DecodeIdle /\ HistoryIdle

\* ---- connect / retry ---------------------------------------------------

\* the connection node's session state as a value; started and join say what
\* a connect() call did
Link ==
  [client |-> adsClient, connecting |-> connecting, timers |-> retryTimer,
   t |-> tState, closing |-> clientClosing, attempts |-> attempts,
   joined |-> joined, started |-> FALSE, join |-> FALSE]

\* clearTimeout that cancels nothing
clearTimeout_noop(n) == n

\* clearTimeout(this.retryTimer) on the number of pending timers: the handle
\* is the newest timer, which is pending whenever any timer is
clearTimeout(n) == IF n > 0 THEN n - 1 ELSE 0

\* the catch block that schedules no retry
scheduleRetry_none(n) == clearTimeout(n)

\* clearTimeout(this.retryTimer); this.retryTimer = setTimeout(...)
scheduleRetry(n) == clearTimeout(n) + 1

\* _connect, up to its first await: the disconnect() of the previous client,
\* or the connect() of a new one
_connect(l) ==
  IF l.client
  THEN [l EXCEPT !.connecting = "teardown", !.closing = TRUE,
                 !.attempts = @ + 1, !.started = TRUE]
  ELSE [l EXCEPT !.connecting = "connect", !.client = TRUE, !.t = "connecting",
                 !.closing = FALSE, !.attempts = @ + 1, !.started = TRUE]

\* connect that starts an attempt of its own whatever is in flight
connect_noDedup(l) ==
  _connect([l EXCEPT !.timers = clearTimeout(@)])

\* this.connect, up to its await of this.connecting
connect(l) ==
  LET l1 == [l EXCEPT !.timers = clearTimeout(@)] IN
  IF l1.connecting = "none"
  THEN _connect(l1)
  ELSE [l1 EXCEPT !.joined = @ + 1, !.join = TRUE]

CommitLink(l) ==
  /\ adsClient' = l.client
  /\ connecting' = l.connecting
  /\ retryTimer' = l.timers
  /\ tState' = l.t
  /\ clientClosing' = l.closing
  /\ attempts' = l.attempts
  /\ joined' = l.joined

\* what the connect() call did, for the record of the step
Noted(b, l) == [b EXCEPT !.started = l.started, !.join = l.join]

\* adsClient.connect() resolves: the client fires "connect", whose listener
\* runs onConnectedStateChange(true).  _connect has not gone on yet:
\* this.connecting is still pending.
ConnectResolve ==
  /\ connecting = "connect"
  /\ tState = "connecting"
  /\ ~clientClosing
  /\ tState' = "connected"
  /\ live' = {}
  /\ Commit("ConnectResolve", 0,
            onConnectedStateChange(EndSession(Broker), TRUE, Listeners, adsClient, adsClient))
  /\ UNCHANGED <<adsClient, connecting, retryTimer, attempts, joined,
                 closeSt, closeClient, clientClosing, nodeVars>>

\* _connect goes on after its await of adsClient.connect() and returns:
\* this.connecting holds the promise, now resolved, until connect() gets the
\* result
ConnectReturn ==
  /\ connecting = "connect"
  /\ tState # "connecting"
  /\ connecting' = "resolved"
  /\ attempts' = attempts - 1
  /\ Commit("ConnectReturn", 0, Broker)
  /\ UNCHANGED <<adsClient, retryTimer, joined, closeSt, closeClient, tState,
                 clientClosing, live, nodeVars>>

\* the result reaches the connect() call that started the attempt: its
\* finally block clears this.connecting; every caller awaiting
\* this.connecting gets the result
ConnectResolved ==
  /\ connecting = "resolved"
  /\ connecting' = "none"
  /\ joined' = 0
  /\ Commit("ConnectResolved", 0, Broker)
  /\ UNCHANGED <<adsClient, retryTimer, attempts, closeSt, closeClient, tState,
                 clientClosing, live, nodeVars>>

\* the catch block that does not report the failure
ConnectReject_unreported ==
  /\ connecting = "connect"
  /\ tState = "connecting"
  /\ tState' = "failed"
  /\ connecting' = "rejected"
  /\ attempts' = attempts - 1
  /\ retryTimer' = IF adsClient THEN scheduleRetry(retryTimer) ELSE retryTimer
  /\ Commit("ConnectReject", 0, [Broker EXCEPT !.failed = TRUE])
  /\ UNCHANGED <<adsClient, joined, closeSt, closeClient, clientClosing, live, nodeVars>>

\* adsClient.connect() rejects: the catch block of _connect reports the
\* failure, schedules the retry and throws.  this.connecting still holds the
\* promise, now rejected, until connect() gets the error.
ConnectReject ==
  /\ connecting = "connect"
  /\ tState = "connecting"
  /\ tState' = "failed"
  /\ connecting' = "rejected"
  /\ attempts' = attempts - 1
  /\ IF adsClient
     THEN /\ retryTimer' = scheduleRetry(retryTimer)
          /\ Commit("ConnectReject", 0,
                    onConnectedStateChange([Broker EXCEPT !.failed = TRUE], FALSE,
                                           Listeners, adsClient, FALSE))
     ELSE /\ retryTimer' = retryTimer
          /\ Commit("ConnectReject", 0, [Broker EXCEPT !.failed = TRUE])
  /\ UNCHANGED <<adsClient, joined, closeSt, closeClient, clientClosing, live, nodeVars>>

\* the error reaches the connect() call that started the attempt: its
\* finally block clears this.connecting; every caller awaiting
\* this.connecting gets the error
ConnectRejected ==
  /\ connecting = "rejected"
  /\ connecting' = "none"
  /\ joined' = 0
  /\ Commit("ConnectRejected", 0, Broker)
  /\ UNCHANGED <<adsClient, retryTimer, attempts, closeSt, closeClient, tState, clientClosing,
                 live, nodeVars>>

\* the retry timer fires: connect(true).  A timer callback starts on a turn
\* of the event loop of its own, after connect() got the error of the attempt.
RetryTimerFires ==
  /\ retryTimer > 0
  /\ connecting \notin {"resolved", "rejected"}
  /\ ~(connecting = "connect" /\ tState # "connecting")
  /\ LET l == connect([Link EXCEPT !.timers = @ - 1]) IN
       /\ CommitLink(l)
       /\ Commit("RetryTimerFires", 0, Noted(Broker, l))
  /\ UNCHANGED <<closeSt, closeClient, live, nodeVars>>

\* connect() called on the connection node by other code
ConnectCall ==
  /\ joined < MaxJoined
  /\ LET l == connect(Link) IN
       /\ CommitLink(l)
       /\ Commit("ConnectCall", 0, Noted(Broker, l))
  /\ UNCHANGED <<closeSt, closeClient, live, nodeVars>>

\* the previous client's disconnect() settles inside _connect: a client that
\* was still connected fires "disconnect" when it closed the session (ok);
\* the reference is dropped and a new client is created and asked to connect
TeardownDone ==
  /\ connecting = "teardown"
  /\ connecting' = "connect"
  /\ adsClient' = TRUE
  /\ tState' = "connecting"
  /\ clientClosing' = FALSE
  /\ closeClient' = FALSE
  /\ live' = {}
  /\ \E ok \in (IF tState = "connected" THEN BOOLEAN ELSE {FALSE}) :
       IF ok
       THEN Commit("TeardownDone", 0,
                   onConnectedStateChange(EndSession(Broker), FALSE, Listeners, TRUE, FALSE))
       ELSE Commit("TeardownDone", 0, EndSession(Broker))
  /\ UNCHANGED <<retryTimer, attempts, joined, closeSt, nodeVars>>

\* ---- signals of an established session ---------------------------------

\* the disconnect handler that also schedules a retry
SessionLost_schedulesRetry ==
  /\ tState = "connected"
  /\ tState' = "lost"
  /\ live' = {}
  /\ retryTimer' = scheduleRetry(retryTimer)
  /\ Commit("SessionLost", 0,
            onConnectedStateChange(EndSession(Broker), FALSE, Listeners, adsClient, FALSE))
  /\ UNCHANGED <<adsClient, connecting, attempts, joined, closeSt, closeClient, clientClosing, nodeVars>>

\* the session is lost: the client fires "disconnect"
SessionLost ==
  /\ tState = "connected"
  /\ tState' = "lost"
  /\ live' = {}
  /\ Commit("SessionLost", 0,
            onConnectedStateChange(EndSession(Broker), FALSE, Listeners, adsClient, FALSE))
  /\ UNCHANGED <<adsClient, connecting, retryTimer, attempts, joined,
                 closeSt, closeClient, clientClosing, nodeVars>>

\* ads-client reconnects by itself (autoReconnect) and fires "connect"
AutoReconnect ==
  /\ tState = "lost"
  /\ ~clientClosing
  /\ tState' = "connected"
  /\ live' = {}
  /\ Commit("AutoReconnect", 0,
            onConnectedStateChange(EndSession(Broker), TRUE, Listeners, adsClient, adsClient))
  /\ UNCHANGED <<adsClient, connecting, retryTimer, attempts, joined,
                 closeSt, closeClient, clientClosing, nodeVars>>

\* the client fires its signal again without a change of state
RepeatedSignal ==
  /\ tState \in {"connected", "lost"}
  /\ Commit("RepeatedSignal", 0,
            onConnectedStateChange(Broker, tState = "connected", Listeners,
                                   adsClient, isConnected))
  /\ UNCHANGED <<adsClient, connecting, retryTimer, attempts, joined,
                 closeSt, closeClient, tState, clientClosing,
                 live, nodeVars>>

\* ---- connection node close handler -------------------------------------

\* this.on("close"): the retry timer is cleared; without a client the handler
\* is done, otherwise it awaits adsClient.disconnect()
CloseStart ==
  /\ closeSt = "open"
  /\ retryTimer' = clearTimeout(retryTimer)
  /\ IF adsClient
     THEN closeSt' = "closing" /\ clientClosing' = TRUE /\ closeClient' = TRUE
     ELSE closeSt' = "closed" /\ clientClosing' = clientClosing /\ closeClient' = FALSE
  /\ Commit("CloseStart", 0, Broker)
  /\ UNCHANGED <<adsClient, connecting, attempts, joined, tState, live, nodeVars>>

\* the close handler that drops the reference only when disconnect() succeeded
CloseDone_keepsClientOnError(ok) ==
  /\ closeSt = "closing"
  /\ closeSt' = "closed"
  /\ adsClient' = IF ok THEN FALSE ELSE adsClient
  /\ closeClient' = FALSE
  /\ IF closeClient /\ tState \in {"connected", "lost"}
     THEN /\ tState' = "closed"
          /\ live' = {}
          /\ IF ok /\ tState = "connected"
             THEN Commit("CloseDone", 0,
                         onConnectedStateChange(EndSession(Broker), FALSE, Listeners, TRUE, FALSE))
             ELSE Commit("CloseDone", 0, [EndSession(Broker) EXCEPT !.failed = ~ok])
     ELSE /\ UNCHANGED <<tState, live>>
          /\ Commit("CloseDone", 0, [Broker EXCEPT !.failed = ~ok])
  /\ UNCHANGED <<connecting, retryTimer, attempts, joined, clientClosing, nodeVars>>

\* adsClient.disconnect() settles in the close handler: a client that was
\* still connected fires "disconnect" when it closed the session (ok); the
\* finally block drops the reference either way.  When connect() has
\* replaced the client meanwhile, the call that settles is the old client's:
\* the new client keeps its session and the reference to it is dropped.
CloseDone(ok) ==
  /\ closeSt = "closing"
  /\ closeSt' = "closed"
  /\ adsClient' = FALSE
  /\ closeClient' = FALSE
  /\ IF closeClient /\ tState \in {"connected", "lost"}
     THEN /\ tState' = "closed"
          /\ live' = {}
          /\ IF ok /\ tState = "connected"
             THEN Commit("CloseDone", 0,
                         onConnectedStateChange(EndSession(Broker), FALSE, Listeners, TRUE, FALSE))
             ELSE Commit("CloseDone", 0, [EndSession(Broker) EXCEPT !.failed = ~ok])
     ELSE /\ UNCHANGED <<tState, live>>
          /\ Commit("CloseDone", 0, [Broker EXCEPT !.failed = ~ok])
  /\ UNCHANGED <<connecting, retryTimer, attempts, joined, clientClosing, nodeVars>>

\* ---- subscribe node handlers -------------------------------------------

\* the constructor: registers its listeners and subscribes when the
\* connection is already up
NodeCreate(n) ==
  /\ nodeSt[n] = "absent"
  /\ nodeSt' = [nodeSt EXCEPT ![n] = "live"]
  /\ Commit("NodeCreate", n,
            IF isConnected THEN subscribe(Broker, n, isConnected) ELSE Broker)
  /\ UNCHANGED <<adsClient, connecting, retryTimer, attempts, joined,
                 closeSt, closeClient, tState, clientClosing,
                 live, nodeH, inputH, resuming>>

\* node.on("input") with payload "resubscribe", up to the await of
\* unsubscribe(): removeSubscriber runs, and the handler then waits for the
\* transport's unsubscribe() when removeSubscriber called it, and otherwise
\* for the promise that is already resolved
NodeInput(n) ==
  /\ nodeSt[n] \in {"live", "closing"}
  /\ InputsInFlight < MaxInputs
  /\ LET b1 == unsubscribe(Leaving(Broker, n)) IN
     /\ IF b1.unsubCalled # 0
        THEN /\ inputH' = [inputH EXCEPT ![n][b1.unsubCalled] = @ + 1]
             /\ resuming' = resuming
        ELSE /\ inputH' = inputH
             /\ resuming' = [resuming EXCEPT ![n] = @ + 1]
     /\ Commit("NodeInput", n, b1)
  /\ UNCHANGED <<adsClient, connecting, retryTimer, attempts, joined,
                 closeSt, closeClient, tState, clientClosing, live, nodeSt, nodeH>>

\* the input handler after its await of unsubscribe(): subscribe(), up to
\* the await of addSubscriber
NodeResubscribe(n) ==
  /\ resuming[n] > 0
  /\ resuming' = [resuming EXCEPT ![n] = @ - 1]
  /\ Commit("NodeResubscribe", n, subscribe(Broker, n, isConnected))
  /\ UNCHANGED <<adsClient, connecting, retryTimer, attempts, joined,
                 closeSt, closeClient, tState, clientClosing, live, nodeSt, nodeH, inputH>>

\* node.on("close"), up to the await of unsubscribe(): removes its
\* listeners, then removeSubscriber runs
NodeClose(n) ==
  /\ nodeSt[n] = "live"
  /\ LET b1 == unsubscribe(Leaving(Broker, n)) IN
     /\ nodeSt' = [nodeSt EXCEPT ![n] = "closing"]
     /\ nodeH' = [nodeH EXCEPT ![n] = b1.unsubCalled]
     /\ Commit("NodeClose", n, b1)
  /\ UNCHANGED <<adsClient, connecting, retryTimer, attempts, joined,
                 closeSt, closeClient, tState, clientClosing, live, inputH, resuming>>

\* the close handler after its await of unsubscribe(): node.status({}) and
\* done()
NodeCloseDone(n) ==
  /\ nodeSt[n] = "closing"
  /\ nodeH[n] = 0
  /\ nodeSt' = [nodeSt EXCEPT ![n] = "closed"]
  /\ Commit("NodeCloseDone", n, Broker)
  /\ UNCHANGED <<adsClient, connecting, retryTimer, attempts, joined,
                 closeSt, closeClient, tState, clientClosing, live, nodeH, inputH, resuming>>

\* ---- the transport settles a request -----------------------------------

\* _subscription.unsubscribe() settles for one of the calls made on handle h,
\* the one a handler of node n awaits (closing: its close handler, otherwise
\* an input handler): the rest of _unsubscribe clears this._subscription
\* whatever the outcome and whatever it holds by now, and the handler is
\* past its await of unsubscribe()
UnsubscribeSettle(n, h, closing, ok) ==
  /\ IF closing
     THEN /\ nodeH[n] = h
          /\ nodeH' = [nodeH EXCEPT ![n] = 0]
          /\ UNCHANGED <<inputH, resuming>>
     ELSE /\ inputH[n][h] > 0
          /\ inputH' = [inputH EXCEPT ![n][h] = @ - 1]
          /\ resuming' = [resuming EXCEPT ![n] = @ + 1]
          /\ nodeH' = nodeH
  /\ live' = IF ok THEN live \ {h} ELSE live
  /\ Commit("UnsubscribeSettle", n, _unsubscribed(Broker, ok))
  /\ UNCHANGED <<adsClient, connecting, retryTimer, attempts, joined,
                 closeSt, closeClient, tState, clientClosing, nodeSt>>

\* adsClient.subscribeRaw settles: the rest of the attempt started by
\* _subscribe stores the handle (or null on failure) and clears _subscribing
SubscribeRawSettle(id, ok) ==
  /\ id \in subPending
  /\ live' = IF ok /\ id \in onCur THEN live \cup {id} ELSE live
  /\ Commit(IF ok THEN "SubscribeRawResolve" ELSE "SubscribeRawReject", 0,
            subscribeRawSettled(Broker, id, ok))
  /\ UNCHANGED <<adsClient, connecting, retryTimer, attempts, joined,
                 closeSt, closeClient, tState, clientClosing,
                 nodeVars>>

Next ==
  \/ ConnectResolve
  \/ ConnectReject
  \/ ConnectReturn
  \/ ConnectResolved
  \/ ConnectRejected
  \/ RetryTimerFires
  \/ TeardownDone
  \/ SessionLost
  \/ AutoReconnect
  \/ RepeatedSignal
  \/ CloseStart
  \/ \E ok \in BOOLEAN : CloseDone(ok)
  \/ \E n \in Nodes : NodeCreate(n)
  \/ \E n \in Nodes : NodeInput(n)
  \/ \E n \in Nodes : NodeResubscribe(n)
  \/ \E n \in Nodes : NodeClose(n)
  \/ \E n \in Nodes : NodeCloseDone(n)
  \/ \E n \in Nodes, h \in Ids, closing, ok \in BOOLEAN : UnsubscribeSettle(n, h, closing, ok)
  \/ \E id \in Ids, ok \in BOOLEAN : SubscribeRawSettle(id, ok)

Spec == Init /\ [][Next]_vars

\* the same program, with the history variables registered and subFailed kept
\* in place of the record of the last step
CountInit == LinkStart(TRUE) /\ DecodeIdle /\ HistoryIdle

CountSpec == CountInit /\ [][Next]_vars

\* the connection node on its own, no subscribe node deployed, with other
\* code calling its connect()
ConnectNext ==
  \/ ConnectResolve
  \/ ConnectReject
  \/ ConnectReturn
  \/ ConnectResolved
  \/ ConnectRejected
  \/ RetryTimerFires
  \/ ConnectCall
  \/ TeardownDone
  \/ SessionLost
  \/ AutoReconnect
  \/ RepeatedSignal
  \/ CloseStart
  \/ \E ok \in BOOLEAN : CloseDone(ok)

ConnectSpec == Init /\ [][ConnectNext]_vars

\* The transport settles every request it was given, a handler that is past
\* an await goes on, and a timer that is pending fires; signals, node
\* deployment and inputs may or may not happen.
Fairness ==
  /\ WF_vars(\E id \in Ids, ok \in BOOLEAN : SubscribeRawSettle(id, ok))
  /\ WF_vars(\E n \in Nodes, h \in Ids, closing, ok \in BOOLEAN :
               UnsubscribeSettle(n, h, closing, ok))
  /\ WF_vars(\E n \in Nodes : NodeResubscribe(n))
  /\ WF_vars(\E n \in Nodes : NodeCloseDone(n))
  /\ WF_vars(ConnectResolve \/ ConnectReject)
  /\ WF_vars(ConnectReturn)
  /\ WF_vars(ConnectResolved)
  /\ WF_vars(ConnectRejected)
  /\ WF_vars(TeardownDone)
  /\ WF_vars(RetryTimerFires)
  /\ WF_vars(\E ok \in BOOLEAN : CloseDone(ok))

FairSpec == Spec /\ Fairness

ConnectFairSpec == ConnectSpec /\ Fairness

\* The program as deployed (connect() is called by the constructor and by
\* the retry timer only), where a timer that is pending fires and an error
\* thrown by _connect reaches connect()
RetryFairSpec == Spec /\ WF_vars(ConnectRejected) /\ WF_vars(RetryTimerFires)

\* ---- notification decoding ---------------------------------------------
\* A buffer is a sequence of bytes; byte i of the Buffer is buf[i + 1].
\* The 32-bit reads are exact for words below 2^31 (top byte below 128),
\* which is what the buffers of BufferOf hold.

\* null where an object (an entry, a Date) is expected
null == [null |-> TRUE]

\* null where a string is expected
nullText == "null"

readUInt8(buf, o) == buf[o + 1]

readUInt16LE(buf, o) == buf[o + 1] + 256 * buf[o + 2]

readUInt32LE(buf, o) ==
  buf[o + 1] + 256 * buf[o + 2] + 65536 * buf[o + 3] + 16777216 * buf[o + 4]

HexDigit ==
  <<"0", "1", "2", "3", "4", "5", "6", "7",
    "8", "9", "a", "b", "c", "d", "e", "f">>

\* Number.prototype.toString(16)
RECURSIVE toString16(_)
toString16(n) ==
  IF n < 16 THEN HexDigit[n + 1]
  ELSE toString16(n \div 16) \o HexDigit[(n % 16) + 1]

\* String.prototype.padStart(w, "0")
RECURSIVE padStart(_, _)
padStart(s, w) == IF Len(s) >= w THEN s ELSE padStart("0" \o s, w)

\* buf.subarray(a, b).toString("hex")
RECURSIVE toStringHex(_, _, _)
toStringHex(buf, a, b) ==
  IF a >= b THEN ""
  ELSE HexDigit[(buf[a + 1] \div 16) + 1] \o HexDigit[(buf[a + 1] % 16) + 1]
       \o toStringHex(buf, a + 1, b)

\* the first field of a GUID read in byte order
parseGuid_data1InByteOrder(buffer, offset) ==
  toStringHex(buffer, offset, offset + 4)

parseGuid_data1(buffer, offset) ==
  padStart(toString16(readUInt32LE(buffer, offset)), 8)

parseGuid(buffer, offset) ==
  IF Len(buffer) < offset + 16 THEN nullText
  ELSE parseGuid_data1(buffer, offset)
       \o "-" \o padStart(toString16(readUInt16LE(buffer, offset + 4)), 4)
       \o "-" \o padStart(toString16(readUInt16LE(buffer, offset + 6)), 4)
       \o "-" \o toStringHex(buffer, offset + 8, offset + 10)
       \o "-" \o toStringHex(buffer, offset + 10, offset + 16)

\* new Date((high * 2^32 + low) / 10000 - 11644473600000), kept as the two
\* words it is computed from: distinct pairs of words below 2^31 that differ
\* by 10000 ticks or more are distinct instants
Date(low, high) == [low |-> low, high |-> high]

\* a timestamp read without the test for the empty FILETIME
parseFileTime_noEmpty(buffer, offset) ==
  IF Len(buffer) < offset + 8 THEN null
  ELSE Date(readUInt32LE(buffer, offset), readUInt32LE(buffer, offset + 4))

parseFileTime(buffer, offset) ==
  IF Len(buffer) < offset + 8 THEN null
  ELSE LET low == readUInt32LE(buffer, offset)
           high == readUInt32LE(buffer, offset + 4)
       IN IF low = 0 /\ high = 0 THEN null ELSE Date(low, high)

\* the printable ASCII characters 0x20 to 0x7e, without 0x60 (a TLA+ string
\* cannot hold the grave accent; no buffer of the model holds that byte)
Ascii ==
  <<" ", "!", "\"", "#", "$", "%", "&", "'", "(", ")", "*", "+",
  ",", "-", ".", "/", "0", "1", "2", "3", "4", "5", "6", "7",
  "8", "9", ":", ";", "<", "=", ">", "?", "@", "A", "B", "C",
  "D", "E", "F", "G", "H", "I", "J", "K", "L", "M", "N", "O",
  "P", "Q", "R", "S", "T", "U", "V", "W", "X", "Y", "Z", "[",
  "\\", "]", "^", "_", "a", "b", "c", "d", "e", "f", "g",
  "h", "i", "j", "k", "l", "m", "n", "o", "p", "q", "r", "s",
  "t", "u", "v", "w", "x", "y", "z", "{", "|", "}", "~">>

\* buf.toString("ascii", a, b) of a run of printable bytes
RECURSIVE toStringAscii(_, _, _)
toStringAscii(buf, a, b) ==
  IF a >= b THEN ""
  ELSE LET c == buf[a + 1]
       IN (CASE c < 96 -> Ascii[c - 31] [] c > 96 -> Ascii[c - 32])
          \o toStringAscii(buf, a + 1, b)

\* the loop of findAsciiStrings at index i, with `start` and `strings`
RECURSIVE findAsciiStringsFrom(_, _, _, _)
findAsciiStringsFrom(buf, i, start, strings) ==
  IF i >= Len(buf)
  THEN IF start # 0 - 1 /\ Len(buf) - start >= 3
       THEN Append(strings, [offset |-> start,
                             text |-> toStringAscii(buf, start, Len(buf))])
       ELSE strings
  ELSE IF buf[i + 1] >= 32 /\ buf[i + 1] < 127
       THEN findAsciiStringsFrom(buf, i + 1,
                                 IF start = 0 - 1 THEN i ELSE start, strings)
       ELSE findAsciiStringsFrom(buf, i + 1, 0 - 1,
              IF start # 0 - 1 /\ i - start >= 3
              THEN Append(strings, [offset |-> start,
                                    text |-> toStringAscii(buf, start, i)])
              ELSE strings)

findAsciiStrings(buf, startOffset) ==
  findAsciiStringsFrom(buf, startOffset, 0 - 1, <<>>)

\* ---- subscribe node: parser and notification handler -------------------

MIN_EVENT_SIZE == 84

HEARTBEAT_SIZE == 16

SEVERITY_STR == <<"Verbose", "Info", "Warning", "Error", "Critical">>

\* a value handed over as data.value: a Buffer, or anything else
IsBuffer(v) == v.buffer

\* node.minSeverity = parseInt(config.minSeverity) || 0
ConfigMinSeverity(c) == IF c.set THEN c.value ELSE 0

\* a severity byte taken as the level whatever its value
severityOf_unchecked(severityRaw) ==
  [level |-> severityRaw,
   name |-> IF severityRaw <= 4 THEN SEVERITY_STR[severityRaw + 1] ELSE "Unknown"]

\* parseEventEntry, the severity byte: values above 4 fall back to Verbose
severityOf(severityRaw) ==
  IF severityRaw <= 4
  THEN [level |-> severityRaw, name |-> SEVERITY_STR[severityRaw + 1]]
  ELSE [level |-> 0, name |-> "Verbose"]

\* a parser that accepts any buffer longer than a heartbeat that holds the
\* fields up to the raised flag
tooShort_lenient(data) == Len(data.bytes) < 60

\* parseEventEntry, the size test
tooShort(data) == Len(data.bytes) < MIN_EVENT_SIZE

parseEventEntry(data) ==
  IF ~IsBuffer(data) \/ tooShort(data) THEN null
  ELSE LET b == data.bytes
           sev == severityOf(readUInt8(b, 36))
           eventKind == readUInt32LE(b, 40)
           raisedFlag == readUInt8(b, 52)
           strings == IF Len(b) > 128 THEN findAsciiStrings(b, 128) ELSE <<>>
       IN [version |-> readUInt32LE(b, 0),
           messageType |-> readUInt16LE(b, 4),
           payloadSize |-> readUInt32LE(b, 8),
           eventClass |-> parseGuid(b, 12),
           eventId |-> readUInt32LE(b, 28),
           severityRaw |-> readUInt8(b, 36),
           severityLevel |-> sev.level,
           severity |-> sev.name,
           eventKind |-> eventKind,
           isAlarm |-> (eventKind = 2),
           alarmState |-> IF raisedFlag = 1 THEN "Raised" ELSE "Cleared",
           alarmStateValue |-> IF raisedFlag = 1 THEN 1 ELSE 0,
           timeRaised |-> parseFileTime(b, 60),
           timeCleared |-> parseFileTime(b, 68),
           timeConfirmed |-> parseFileTime(b, 76),
           sourceName |-> IF Len(strings) >= 1 THEN strings[1].text ELSE "",
           message |-> IF Len(strings) >= 2 THEN strings[2].text ELSE ""]

\* the msg built from an entry
MsgOf(entry) ==
  [topic |-> "eventlogger",
   payload |-> [eventClass |-> entry.eventClass,
                eventId |-> entry.eventId,
                severity |-> entry.severity,
                severityLevel |-> entry.severityLevel,
                timeRaised |-> entry.timeRaised,
                timeCleared |-> entry.timeCleared,
                timeConfirmed |-> entry.timeConfirmed,
                alarmState |-> entry.alarmState,
                isAlarm |-> entry.isAlarm,
                sourceName |-> entry.sourceName,
                message |-> entry.message]]

\* a filter that drops the events at the threshold too
sendEvent_strict(entry, min) ==
  IF entry.severityLevel <= min THEN <<>> ELSE <<MsgOf(entry)>>

\* sendEvent: the messages node.send is called with
sendEvent(entry, min) ==
  IF entry.severityLevel < min THEN <<>> ELSE <<MsgOf(entry)>>

\* a heartbeat test that lets the 16-byte notification through
isHeartbeat_below(buffer) == Len(buffer.bytes) < HEARTBEAT_SIZE

\* onEventData, the heartbeat test
isHeartbeat(buffer) == Len(buffer.bytes) <= HEARTBEAT_SIZE

\* onEventData(data): what one notification makes the node do.
\*   parsed: parseEventEntry was called    warned: node.warn was called
\*   errored: the catch ran (node.error)    out: messages sent
onEventData(data, min) ==
  IF ~data.defined
  THEN [parsed |-> FALSE, warned |-> FALSE, errored |-> TRUE,
        entry |-> null, out |-> <<>>]
  ELSE LET buffer == data.value
       IN IF ~IsBuffer(buffer) \/ Len(buffer.bytes) = 0 \/ isHeartbeat(buffer)
          THEN [parsed |-> FALSE, warned |-> FALSE, errored |-> FALSE,
                entry |-> null, out |-> <<>>]
          ELSE LET entry == parseEventEntry(buffer)
               IN [parsed |-> TRUE, warned |-> (entry = null),
                   errored |-> FALSE, entry |-> entry,
                   out |-> IF entry = null THEN <<>>
                           ELSE sendEvent(entry, min)]

\* ---- notifications handled one at a time -------------------------------
\* The handler keeps no state between notifications: what it does with one
\* depends on the notification and on minSeverity only.  DecodeSpec draws
\* one input, applies the handler (or the GUID reader) and keeps the outcome.

MaxBufLen == 144     \* longest buffer of the length sweep

\* the GUID of the documented example, and three more byte patterns
GuidBytes ==
  << <<20, 159, 13, 22, 126, 217, 98, 68, 175, 173, 234, 76, 212, 130, 150, 180>>,
     <<1, 2, 3, 4, 5, 6, 7, 8, 9, 10, 11, 12, 13, 14, 15, 16>>,
     <<0, 0, 0, 0, 0, 0, 0, 0, 0, 0, 0, 0, 0, 0, 0, 0>>,
     <<255, 0, 171, 127, 0, 205, 239, 0, 0, 255, 160, 10, 0, 1, 16, 254>> >>

\* byte k of an 8-byte FILETIME field of pattern t: 0 is the empty field,
\* 1..8 have one byte set, 9 has every byte set
FieldByte(t, k) ==
  IF t = 0 THEN 0
  ELSE IF t = 9 THEN 17
  ELSE IF k = t - 1 THEN 1 ELSE 0

\* tails from offset 128 on: runs of printable bytes between other bytes
Tails ==
  { <<>>,
    <<80, 76, 67>>,
    <<80, 76>>,
    <<80, 76, 67, 0, 72, 105, 33, 0>>,
    <<0, 0, 77, 97, 105, 110, 0, 7, 79, 75, 0, 70, 97, 117, 108, 116>>,
    <<65, 66, 67, 127, 68, 69, 70, 31, 71, 72, 73, 0>>,
    <<32, 126, 95, 97, 128, 255, 34, 92, 39>> }

\* byte i of the notification described by p, in the layout parseEventEntry
\* reads: GUID at 12, event id at 28, the 4-byte word at 32, severity at 36,
\* event kind at 40, raised flag at 52, FILETIMEs at 60, 68 and 76
ByteAt(p, i) ==
  IF i = 0 THEN 1
  ELSE IF i = 4 THEN 10
  ELSE IF i >= 12 /\ i <= 27 THEN GuidBytes[p.guid][i - 11]
  ELSE IF i = 28 THEN p.id
  ELSE IF i = 32 THEN p.w32
  ELSE IF i = 36 THEN p.sev
  ELSE IF i = 40 THEN p.kind
  ELSE IF i = 52 THEN p.flag
  ELSE IF i >= 60 /\ i <= 67 THEN FieldByte(p.raised, i - 60)
  ELSE IF i >= 68 /\ i <= 75 THEN FieldByte(p.cleared, i - 68)
  ELSE IF i >= 76 /\ i <= 83 THEN FieldByte(p.confirmed, i - 76)
  ELSE IF i >= 128 /\ i - 128 < Len(p.tail) THEN p.tail[i - 127]
  ELSE 0

BufferOf(p) == [i \in 1..p.len |-> ByteAt(p, i - 1)]

Std ==
  [len |-> 84, guid |-> 1, id |-> 7, w32 |-> 0, sev |-> 2, kind |-> 2,
   flag |-> 1, raised |-> 9, cleared |-> 0, confirmed |-> 0, tail |-> <<>>]

LongTail == <<0, 0, 77, 97, 105, 110, 0, 7, 79, 75, 0, 70, 97, 117, 108, 116>>

\* every length from the empty buffer on; every severity byte, with and
\* without a value in the word at 32; every combination of empty and set
\* FILETIME fields; event kinds and raised flags; the tails
Params ==
  {[Std EXCEPT !.len = n, !.tail = LongTail] : n \in 0..MaxBufLen}
  \cup {[Std EXCEPT !.sev = s, !.w32 = w] : s \in 0..255, w \in {0, 3}}
  \cup {[Std EXCEPT !.raised = a, !.cleared = b, !.confirmed = c] :
          a \in 0..9, b \in 0..9, c \in 0..9}
  \cup {[Std EXCEPT !.kind = k, !.flag = f, !.guid = g] :
          k \in 0..3, f \in 0..2, g \in 1..4}
  \cup {[Std EXCEPT !.len = 128 + Len(t), !.tail = t] : t \in Tails}

\* the argument of the "eventData" listener: a notification carrying a
\* Buffer, one carrying something else, or no object at all
DataOf(kind, p) ==
  IF kind = "buffer"
  THEN [defined |-> TRUE, value |-> [buffer |-> TRUE, bytes |-> BufferOf(p)]]
  ELSE IF kind = "other"
  THEN [defined |-> TRUE, value |-> [buffer |-> FALSE]]
  ELSE [defined |-> FALSE]

Kinds == {"buffer", "other", "undefined"}

\* config.minSeverity: not set, or a number
Configs ==
  {[set |-> FALSE, value |-> 0]}
  \cup {[set |-> TRUE, value |-> v] : v \in (0 - 1)..5}

\* the notifications and the parseGuid calls the checks cover
Pending ==
  {[op |-> "data", kind |-> "buffer", p |-> p] : p \in Params}
  \cup {[op |-> "data", kind |-> k, p |-> Std] : k \in Kinds \ {"buffer"}}
  \cup {[op |-> "guid", g |-> g, offset |-> o, len |-> n] :
          g \in 1..4, o \in {0, 12}, n \in 0..30}

\* a node with some minSeverity and one input about to arrive
DecodeInit ==
  /\ LinkInit
  /\ HistoryIdle
  /\ minSeverity \in {ConfigMinSeverity(c) : c \in Configs}
  /\ step \in Pending
  /\ received = <<>>
  /\ sent = <<>>

\* the transport delivers the notification: the listener runs
EventData ==
  /\ step.op = "data"
  /\ LET r == onEventData(DataOf(step.kind, step.p), minSeverity)
     IN step' = [op |-> "onEventData", kind |-> step.kind, p |-> step.p,
                 parsed |-> r.parsed, warned |-> r.warned,
                 errored |-> r.errored, entry |-> r.entry, out |-> r.out]
  /\ UNCHANGED <<minSeverity, received, sent, linkVars, historyVars>>

\* the first n bytes of: o bytes of zero, then GUID pattern g
GuidBuffer(g, o, n) ==
  [i \in 1..n |-> IF i <= o \/ i > o + 16 THEN 0 ELSE GuidBytes[g][i - o]]

\* parseGuid is called on a buffer of step.len bytes at step.offset
ParseGuidCall ==
  /\ step.op = "guid"
  /\ step' = [op |-> "parseGuid", g |-> step.g, offset |-> step.offset,
              len |-> step.len,
              guid |-> parseGuid(GuidBuffer(step.g, step.offset, step.len),
                                 step.offset)]
  /\ UNCHANGED <<minSeverity, received, sent, linkVars, historyVars>>

\* ---- the integration test's parser (src/test/test-integration.js) -------

\* the scan loop of the test's parseEventEntry at index i; strings holds texts
RECURSIVE testAsciiStringsFrom(_, _, _, _)
testAsciiStringsFrom(data, i, start, strings) ==
  IF i >= Len(data)
  THEN IF start # 0 - 1 /\ Len(data) - start >= 3
       THEN Append(strings, toStringAscii(data, start, Len(data)))
       ELSE strings
  ELSE IF data[i + 1] >= 32 /\ data[i + 1] < 127
       THEN testAsciiStringsFrom(data, i + 1,
                                 IF start = 0 - 1 THEN i ELSE start, strings)
       ELSE testAsciiStringsFrom(data, i + 1, 0 - 1,
              IF start # 0 - 1 /\ i - start >= 3
              THEN Append(strings, toStringAscii(data, start, i))
              ELSE strings)

\* parseEventEntry of the test: the severity is the 4-byte word at offset 32
testParseEventEntry(data) ==
  IF ~IsBuffer(data) \/ Len(data.bytes) < 84 THEN null
  ELSE LET b == data.bytes
           severityRaw == readUInt32LE(b, 32)
           eventKind == readUInt32LE(b, 40)
           raisedFlag == readUInt8(b, 52)
           strings == IF Len(b) > 128
                      THEN testAsciiStringsFrom(b, 128, 0 - 1, <<>>)
                      ELSE <<>>
       IN [version |-> readUInt32LE(b, 0),
           messageType |-> readUInt16LE(b, 4),
           payloadSize |-> readUInt32LE(b, 8),
           eventClass |-> parseGuid(b, 12),
           eventId |-> readUInt32LE(b, 28),
           severityRaw |-> severityRaw,
           severityLevel |-> IF severityRaw <= 4 THEN severityRaw ELSE 0,
           severity |-> IF severityRaw <= 4 THEN SEVERITY_STR[severityRaw + 1]
                        ELSE "Verbose",
           eventKind |-> eventKind,
           isAlarm |-> (eventKind = 2),
           alarmState |-> IF raisedFlag = 1 THEN "Raised" ELSE "Cleared",
           timeRaised |-> parseFileTime(b, 60),
           timeCleared |-> parseFileTime(b, 68),
           timeConfirmed |-> parseFileTime(b, 76),
           sourceName |-> IF Len(strings) >= 1 THEN strings[1] ELSE "",
           message |-> IF Len(strings) >= 2 THEN strings[2] ELSE ""]

\* both parsers are applied to the buffer drawn
BothParse ==
  /\ step.op = "data"
  /\ step.kind = "buffer"
  /\ LET data == [buffer |-> TRUE, bytes |-> BufferOf(step.p)]
     IN step' = [op |-> "parseEventEntry", kind |-> step.kind, p |-> step.p,
                 entry |-> parseEventEntry(data),
                 mirror |-> testParseEventEntry(data)]
  /\ UNCHANGED <<minSeverity, received, sent, linkVars, historyVars>>

DecodeNext == EventData \/ ParseGuidCall \/ BothParse

DecodeSpec == DecodeInit /\ [][DecodeNext]_vars

\* ---- a stream of notifications ----------------------------------------

MaxStream == 3       \* notifications delivered in one run

\* heartbeats, too-short buffers, events of different severities, a value
\* that is not a Buffer and a missing notification object
StreamInputs ==
  {[kind |-> "buffer", p |-> [Std EXCEPT !.len = n]] : n \in {0, 16, 83}}
  \cup {[kind |-> "buffer", p |-> [Std EXCEPT !.sev = s, !.id = s + 1]] :
          s \in {1, 3, 4, 200}}
  \cup {[kind |-> k, p |-> Std] : k \in Kinds \ {"buffer"}}

StreamInit ==
  /\ LinkInit
  /\ HistoryIdle
  /\ minSeverity \in {ConfigMinSeverity(c) : c \in Configs}
  /\ step = NoStep
  /\ received = <<>>
  /\ sent = <<>>

\* a listener that is no longer called once a notification was rejected
Notify_stopsAfterRejected(d) ==
  /\ Len(received) < MaxStream
  /\ received' = Append(received, d)
  /\ sent' = IF \E i \in 1..Len(received) :
                  LET r == onEventData(DataOf(received[i].kind, received[i].p),
                                       minSeverity)
                  IN r.warned \/ r.errored
             THEN sent
             ELSE sent \o onEventData(DataOf(d.kind, d.p), minSeverity).out
  /\ UNCHANGED <<minSeverity, step, linkVars, historyVars>>

\* the subscription callback emits "eventData" and the node's listener
\* handles the notification to the end
Notify(d) ==
  /\ Len(received) < MaxStream
  /\ received' = Append(received, d)
  /\ sent' = sent \o onEventData(DataOf(d.kind, d.p), minSeverity).out
  /\ UNCHANGED <<minSeverity, step, linkVars, historyVars>>

StreamNext == \E d \in StreamInputs : Notify(d)

StreamSpec == StreamInit /\ [][StreamNext]_vars

\* ---- history node -------------------------------------------------------
\* A time value of a payload is null, a Date or a string; iso is the ISO text
\* of the Date or the string itself.

MaxLimit == 2        \* largest maxEvents setting

NoTime == [kind |-> "null", iso |-> ""]

TimeValues ==
  {NoTime, [kind |-> "date", iso |-> "T1"], [kind |-> "string", iso |-> "T1"],
   [kind |-> "date", iso |-> "T2"]}

\* toISOStr(val): null for a falsy value, else the ISO text
toISOStr(val) ==
  IF val.kind = "null" \/ (val.kind = "string" /\ val.iso = "") THEN nullText
  ELSE val.iso

\* event payloads as the subscribe node sends them: an alarm raised, or the
\* same alarm cleared
Payloads ==
  {[eventClass |-> c, eventId |-> 7, timeRaised |-> t,
    alarmState |-> "Raised", timeCleared |-> NoTime] :
      c \in {"160d9f14", "00000000"}, t \in TimeValues}
  \cup
  {[eventClass |-> c, eventId |-> 7, timeRaised |-> t,
    alarmState |-> "Cleared", timeCleared |-> [kind |-> "date", iso |-> "T9"]] :
      c \in {"160d9f14", "00000000"}, t \in TimeValues}

\* a lookup that compares timeRaised as stored, without toISOStr
RECURSIVE findExistingIndex_rawTime(_, _, _)
findExistingIndex_rawTime(es, eventPayload, i) ==
  IF i < 0 THEN 0 - 1
  ELSE IF /\ es[i + 1].eventClass = eventPayload.eventClass
          /\ es[i + 1].eventId = eventPayload.eventId
          /\ es[i + 1].timeRaised = eventPayload.timeRaised
       THEN i
       ELSE findExistingIndex_rawTime(es, eventPayload, i - 1)

\* findExistingIndex: the loop from index i down; -1 when nothing matches
RECURSIVE findExistingIndex(_, _, _)
findExistingIndex(es, eventPayload, i) ==
  IF i < 0 THEN 0 - 1
  ELSE IF /\ es[i + 1].eventClass = eventPayload.eventClass
          /\ es[i + 1].eventId = eventPayload.eventId
          /\ toISOStr(es[i + 1].timeRaised) = toISOStr(eventPayload.timeRaised)
       THEN i
       ELSE findExistingIndex(es, eventPayload, i - 1)

\* { ...eventPayload, _receivedAt } and { ...old, ...eventPayload,
\* _receivedAt, _updatedAt }: updated says whether _updatedAt is present
EntryOf(eventPayload, updated) ==
  [eventClass |-> eventPayload.eventClass, eventId |-> eventPayload.eventId,
   timeRaised |-> eventPayload.timeRaised,
   alarmState |-> eventPayload.alarmState,
   timeCleared |-> eventPayload.timeCleared, updated |-> updated]

\* events.slice(events.length - max) of an array longer than max
slice(es, max) == SubSeq(es, Len(es) - max + 1, Len(es))

\* addEvent: the events array afterwards
addEvent(es, max, eventPayload) ==
  LET existingIdx == findExistingIndex(es, eventPayload, Len(es) - 1)
  IN IF existingIdx >= 0
     THEN [es EXCEPT ![existingIdx + 1] = EntryOf(eventPayload, TRUE)]
     ELSE LET pushed == Append(es, EntryOf(eventPayload, FALSE))
          IN IF Len(pushed) > max THEN slice(pushed, max) ELSE pushed

HistoryInit ==
  /\ LinkInit
  /\ DecodeIdle
  /\ events = <<>>
  /\ maxEvents \in 1..MaxLimit
  /\ hstep = NoStep

\* input handler, a payload with eventClass, eventId and alarmState
HistoryEvent(eventPayload) ==
  /\ events' = addEvent(events, maxEvents, eventPayload)
  /\ hstep' = [op |-> "addEvent", payload |-> eventPayload,
               idx |-> findExistingIndex(events, eventPayload, Len(events) - 1),
               len0 |-> Len(events)]
  /\ UNCHANGED <<maxEvents, linkVars, decodeVars>>

\* input handler, the "clear" command
HistoryClear ==
  /\ events' = <<>>
  /\ hstep' = [op |-> "clear"]
  /\ UNCHANGED <<maxEvents, linkVars, decodeVars>>

\* the flow is deployed with another Max Events setting: the node is closed
\* (the array is persisted) and constructed again, loading the array from
\* the global context
Redeploy(max) ==
  /\ max # maxEvents
  /\ maxEvents' = max
  /\ events' = events
  /\ hstep' = [op |-> "load"]
  /\ UNCHANGED <<linkVars, decodeVars>>

HistoryNext ==
  \/ \E p \in Payloads : HistoryEvent(p)
  \/ HistoryClear
  \/ \E max \in 1..MaxLimit : Redeploy(max)

HistorySpec == HistoryInit /\ [][HistoryNext]_vars

\* ---- properties --------------------------------------------------------

\* handlers that run addSubscriber for node last.n on the state they found
RanAddSubscriber == last.op \in {"NodeCreate", "NodeResubscribe"}
\* the client's connect signal changed the state to connected
ConnectedTransition == last.op \in {"ConnectResolve", "AutoReconnect"} /\ last.sig = "up"

\* C1: single-flight subscribe.  At most one subscribeRaw request is pending
\* at any time and no handler issues more than one; an addSubscriber call
\* made while connected with no subscription stored issues the request when
\* none is in progress and otherwise issues none and awaits the one in
\* progress; every caller that is waiting waits for that one request.
C1_SingleFlight ==
  /\ Cardinality(subPending) <= 1
  /\ last.calls <= 1
  /\ \A n \in Nodes : waitSub[n] \subseteq (subPending \cap {subscribing})
  /\ (RanAddSubscriber /\ isConnected /\ last.sub0 = 0) =>
       IF last.ing0 = 0
       THEN last.calls = 1 /\ subscribing = nextId /\ nextId \in waitSub[last.n]
       ELSE last.calls = 0 /\ subscribing = last.ing0 /\ last.ing0 \in waitSub[last.n]

\* C1 witness: a second node called addSubscriber while the first request was
\* still pending, and both wait for it
C1_Witness ==
  /\ RanAddSubscriber /\ isConnected /\ last.sub0 = 0
  /\ last.ing0 \in Ids
  /\ Cardinality(subPending) = 1
  /\ \A n \in Nodes : waitSub[n] = {subscribing}

\* C2: addSubscriber called while the session is not connected issues no
\* subscribeRaw; a connected transition that finds registered subscribers, no
\* handle and no attempt in progress issues exactly one, however many
\* listening nodes call addSubscriber in it.
C2_DeferredSubscribeOnce ==
  /\ (RanAddSubscriber /\ ~isConnected)
       => last.calls = 0
  /\ (ConnectedTransition /\ adsClient /\ subscriberCount > 0
        /\ last.sub0 = 0 /\ last.ing0 = 0)
       => last.calls = 1 /\ Cardinality(subPending) = 1

\* C2 witness: addSubscriber calls were made before any request was issued
\* (the count was positive with none issued), then the connected transition
\* ran the listeners and issued the first request
C2_Witness ==
  /\ ConnectedTransition /\ adsClient
  /\ last.c0 > 0 /\ subscriberCount > last.c0
  /\ nextId = 1 /\ last.calls = 1

\* C3 (as claimed): once every subscribe node that was created has finished
\* closing and no input handler is still running, the subscriber count is 0
\* and no handle is held.
C3_AllClosedReleased ==
  ((\A n \in Nodes : nodeSt[n] \in {"absent", "closed"})
     /\ (\E n \in Nodes : nodeSt[n] = "closed")
     /\ InputsInFlight = 0)
    => (subscriberCount = 0 /\ subscription = 0)

\* C4 (as claimed): the transport's unsubscribe is called at most once on a
\* subscription handle, also when removeSubscriber runs again while the first
\* unsubscribe is pending (a handle is dropped when an unsubscribe settles
\* and is never stored again, so a second call can only come while the first
\* is pending).
C4_AtMostOneUnsubscribe == \A h \in Ids : UnsubscribeCalls(h) <= 1

\* C5: subscriberCount is never negative; removeSubscriber, run by a closing
\* node or by a "resubscribe" input, leaves max(0, count - 1).
C5_CountFloor ==
  /\ subscriberCount >= 0
  /\ last.op \in {"NodeClose", "NodeInput"} => subscriberCount = Max(0, last.c0 - 1)

\* C5 witness: removeSubscriber ran with the count already 0
C5_Witness == last.op = "NodeClose" /\ last.c0 = 0 /\ subscriberCount = 0

\* C6: a disconnected signal clears the handle, calls no unsubscribe and
\* leaves subscriberCount as it was.
C6_DisconnectInvalidates ==
  last.sig = "down" =>
    (subscription = 0 /\ last.unsub = 0 /\ subscriberCount = last.c0)

\* C6 witness: the session was lost while a handle was stored for registered
\* subscribers
C6_Witness ==
  last.sig = "down" /\ last.sub0 # 0 /\ last.c0 > 0 /\ last.emitted = "false"

\* the stored handle is a subscription of the current session
C7_Held == subscription # 0 /\ subscription \in live
\* the session ended, the subscribers left, or a subscribeRaw of the current
\* session failed
C7_Excused ==
  \/ ~isConnected
  \/ subscriberCount = 0
  \/ (last.op = "SubscribeRawReject" /\ last.ing0 \in onCur)

\* C7 (as claimed): after a connected transition with subscribers registered
\* a subscription of the new session is eventually held, unless the session
\* ends, the subscribers leave or a subscribeRaw of the new session fails.
C7_ResubscribesOnReconnect ==
  [](ConnectedTransition /\ adsClient /\ subscriberCount > 0
       => <>(C7_Held \/ C7_Excused))

\* C8 (as claimed): while the last connection-state change was to
\* disconnected no handle is stored.
C8_NoHandleWhileDisconnected ==
  (firstConnectedEventSent /\ ~connected) => subscription = 0

\* C9 (as claimed): at most one subscription of the current session is live
\* at the transport.
C9_OneLiveSubscription == Cardinality(live) <= 1

\* C10 (as claimed): a "resubscribe" input handled while connected with a
\* handle stored calls unsubscribe on that handle, and the handler, going on
\* while connected with no request in progress, issues one new subscribeRaw.
C10_ResubscribeRecreates ==
  /\ (last.op = "NodeInput" /\ isConnected /\ last.sub0 # 0)
       => last.unsub = last.sub0
  /\ (last.op = "NodeResubscribe" /\ isConnected /\ last.ing0 = 0)
       => last.calls = 1

\* the outcome of the connect attempt reached connect()
ConnectSettled == last.op \in {"ConnectResolved", "ConnectRejected"}

\* C11: connect() is deduplicated.  At most one _connect is in flight, and it
\* is the one this.connecting holds; a connect() call made while
\* this.connecting is set starts none and waits for it; when its outcome
\* reaches connect() every waiting caller gets it, none is left waiting.
C11_ConnectDeduplicated ==
  /\ attempts <= 1
  /\ (attempts = 1) <=> (connecting \in {"teardown", "connect"})
  /\ joined > 0 => connecting # "none"
  /\ last.join => (~last.started /\ connecting # "none" /\ joined = last.joined0 + 1)
  /\ ConnectSettled => (attempts = 0 /\ joined = 0 /\ connecting = "none")

\* C11 witness: connect() calls were made while an attempt was in flight and
\* the attempt settled for them
C11_Witness == ConnectSettled /\ last.joined0 > 0

\* the value the signal handled in the last step reported
Reported == IF last.sig = "up" THEN "true" ELSE "false"

\* C12: the "connected" event is emitted once per actual change.  Once an
\* event was emitted, a signal reporting the value emitted last emits
\* nothing, a signal reporting the other value emits it, so consecutive
\* emitted values alternate; the value emitted last is this.connected.
C12_EmitOncePerChange ==
  /\ (last.emitted # "none" /\ last.emitted0 # "none") => last.emitted # last.emitted0
  /\ (last.sig # "none" /\ Reported = last.emitted0) => last.emitted = "none"
  /\ (last.sig # "none" /\ Reported # last.emitted0) => last.emitted = Reported
  /\ lastEmitted = (IF ~firstConnectedEventSent THEN "none"
                    ELSE IF connected THEN "true" ELSE "false")

\* C12 witness: the client repeated its connect signal after "connected" had
\* been emitted, and nothing was emitted
C12_Witness ==
  last.op = "RepeatedSignal" /\ last.sig = "up" /\ last.emitted0 = "true"
    /\ last.emitted = "none"

\* a connect attempt failed while the connection node was not being closed
C13_FailedOpen == last.op = "ConnectReject" /\ closeSt = "open"
\* the next attempt was started: by the retry timer's connect(), or by a
\* connect() call that cancelled the timer
C13_Retried == last.op \in {"RetryTimerFires", "ConnectCall"} /\ last.started

\* C13: connect failures are retried without end.  A connect attempt that
\* fails while the node is not torn down leaves the retry timer pending, and
\* is followed by the next attempt unless the node is closed first; nothing
\* counts the retries.
C13_RetriedIndefinitely ==
  /\ [](C13_FailedOpen => retryTimer = 1)
  /\ (C13_FailedOpen ~> (C13_Retried \/ closeSt # "open"))

\* C13 witness: a later attempt failed in its turn and the timer is pending
\* again (the first attempt's failure always emits an event, so a failure
\* that emits none is the failure of a later attempt)
C13_Witness ==
  C13_FailedOpen /\ last.emitted = "none" /\ last.emitted0 = "false" /\ retryTimer = 1

\* C14 (as claimed): every connect attempt that fails while the node is not
\* torn down emits the disconnected notification.
C14_EmitsOnEachFailure ==
  (last.op = "ConnectReject" /\ closeSt = "open") => last.emitted = "false"

\* C14 (amended): a connect attempt that fails while the client reference is
\* set reports disconnected to onConnectedStateChange, which emits the
\* notification only when the value emitted last was not disconnected; a
\* failure that follows a disconnected notification emits nothing, and so
\* does a failure after the reference was cleared.
C14_FailureEmitsOnChange ==
  last.op = "ConnectReject" =>
    IF adsClient
    THEN /\ last.sig = "down" /\ ~connected
         /\ last.emitted = (IF last.emitted0 = "false" THEN "none" ELSE "false")
    ELSE last.sig = "none" /\ last.emitted = "none"

\* C14 witness: the attempt failed again after disconnected had been emitted,
\* and nothing was emitted
C14_Witness ==
  last.op = "ConnectReject" /\ adsClient /\ last.emitted0 = "false"
    /\ last.emitted = "none" /\ last.sig = "down"

\* C15 (as claimed): once the close handler of the connection node has
\* started, no retry timer is scheduled (none is pending, the handler having
\* cleared it) and no connect attempt is started.
C15_TeardownPrecedence ==
  closeSt # "open" => (retryTimer = 0 /\ ~last.started)

\* C16: at most one retry timer is pending; no timer is pending while a
\* connect attempt is in flight, connect() having cancelled it before the
\* attempt started, so an attempt started by the timer finds no other attempt
\* and attempts never overlap; the close handler leaves no timer pending.
C16_TimerCancelled ==
  /\ retryTimer <= 1
  /\ attempts > 0 => retryTimer = 0
  /\ last.started => (retryTimer = 0 /\ attempts = 1)
  /\ last.op = "RetryTimerFires" => (last.started /\ ~last.join)
  /\ last.op = "CloseStart" => retryTimer = 0

\* C16 witness: connect() was called with a retry timer pending, cancelled it
\* and started the attempt
C16_Witness ==
  last.op = "ConnectCall" /\ last.timers0 = 1 /\ last.started /\ retryTimer = 0

\* C17 (as claimed): when an established session is lost the supervisor
\* schedules a reconnect: a retry timer is pending or a connect attempt is in
\* flight.
C17_LossSchedulesReconnect ==
  (last.op = "SessionLost" /\ closeSt = "open") => (retryTimer > 0 \/ attempts > 0)

\* C17 (amended): when an established session is lost the supervisor reports
\* disconnected and schedules nothing: while the session stays lost no retry
\* timer is pending and no connect attempt is in flight, but for the attempt
\* that established the session when _connect has not returned yet.
C17_LossLeftToTransport ==
  /\ last.op = "SessionLost" => (last.sig = "down" /\ ~connected /\ ~last.started)
  /\ tState = "lost" =>
       (retryTimer = 0 /\ (attempts = 0 \/ connecting = "connect"))

\* C17 witness: the session was lost with the node open, disconnected was
\* emitted and nothing is scheduled
C17_Witness ==
  last.op = "SessionLost" /\ closeSt = "open" /\ last.emitted = "false"
    /\ retryTimer = 0 /\ attempts = 0

\* C18: the close handler of the connection node leaves no retry timer
\* pending and, when a client exists, calls its disconnect() and waits for
\* it, else is done at once; when disconnect() settles, with success or with
\* an error, the client reference is null and the handler is done.
C18_CloseClearsSession ==
  /\ last.op = "CloseStart" =>
       /\ retryTimer = 0
       /\ IF adsClient THEN closeSt = "closing" /\ clientClosing
                       ELSE closeSt = "closed"
  /\ last.op = "CloseDone" => (~adsClient /\ closeSt = "closed")

\* C18 witness: disconnect() reported an error to the close handler
C18_Witness ==
  last.op = "CloseDone" /\ last.failed /\ ~adsClient /\ closeSt = "closed"

\* C19: when the transport's unsubscribe() settles, with success or with an
\* error, the handle is cleared, the count is left alone and removeSubscriber
\* returns normally to the handler that called it: a close handler goes on
\* to done(), a "resubscribe" handler to subscribe().
C19_UnsubscribeFailureContained ==
  last.op = "UnsubscribeSettle" =>
    /\ subscription = 0
    /\ subscriberCount = last.c0
    /\ \/ nodeSt[last.n] = "closing" /\ nodeH[last.n] = 0
       \/ resuming[last.n] > 0

\* C19 witness: unsubscribe() failed for a closing node, whose close handler
\* goes on with the handle cleared
C19_Witness ==
  last.op = "UnsubscribeSettle" /\ last.failed /\ last.sub0 # 0
    /\ nodeSt[last.n] = "closing" /\ nodeH[last.n] = 0 /\ subscription = 0

\* C20: when subscribeRaw fails, _subscribing is cleared, no handle is
\* stored, subscriberCount keeps its value and no caller is left waiting for
\* the request (each got the error); an addSubscriber call made afterwards
\* while connected, finding no handle and no attempt in progress, issues a
\* new request.
C20_SubscribeFailure ==
  /\ last.op = "SubscribeRawReject" =>
       /\ last.failed
       /\ subscribing = 0 /\ subscription = 0
       /\ subscriberCount = last.c0
       /\ last.ing0 \in Ids /\ last.ing0 \notin subPending
       /\ \A n \in Nodes : last.ing0 \notin waitSub[n]
  /\ (RanAddSubscriber /\ isConnected /\ last.sub0 = 0 /\ last.ing0 = 0) =>
       (last.calls = 1 /\ subscribing = nextId /\ nextId \in subPending)

\* C20 witness: subscribeRaw failed for a listening node that awaited it,
\* while connected with subscribers registered and a request id left, so the
\* node's next "resubscribe" issues a new request
C20_Witness ==
  /\ last.op = "SubscribeRawReject" /\ last.rejectedTo # {}
  /\ \E n \in last.rejectedTo : nodeSt[n] = "live"
  /\ isConnected /\ subscriberCount > 0 /\ nextId < MaxHandles

\* C21: a notification whose buffer holds at most 16 bytes (the empty buffer
\* included) is a heartbeat: the parser is not called on it, nothing is
\* logged and no message is sent.
C21_HeartbeatIgnored ==
  (step.op = "onEventData" /\ step.kind = "buffer" /\ step.p.len <= 16)
    => /\ ~step.parsed
       /\ ~step.warned
       /\ ~step.errored
       /\ step.out = <<>>

\* a 16-byte notification was delivered and skipped
C21_Witness ==
  /\ step.op = "onEventData"
  /\ step.kind = "buffer"
  /\ step.p.len = 16
  /\ ~step.parsed

\* C22: a buffer of 17 to 83 bytes is handed to the parser, which rejects it
\* as too short (a warning, no entry), and nothing is sent; a message is sent
\* only for a notification whose buffer holds at least 84 bytes.
C22_TooShortDropped ==
  step.op = "onEventData" =>
    /\ (step.kind = "buffer" /\ step.p.len >= 17 /\ step.p.len <= 83)
         => /\ step.parsed
            /\ step.warned
            /\ step.entry = null
            /\ ~step.errored
            /\ step.out = <<>>
    /\ step.out # <<>> => (step.kind = "buffer" /\ step.p.len >= 84)

\* an 83-byte notification was delivered and rejected by the parser
C22_Witness ==
  /\ step.op = "onEventData"
  /\ step.kind = "buffer"
  /\ step.p.len = 83
  /\ step.warned

\* the messages due for the notifications ds, oldest first: one for each
\* buffer of at least 84 bytes whose severity level passes the filter
RECURSIVE MessagesDue(_)
MessagesDue(ds) ==
  IF ds = <<>> THEN <<>>
  ELSE LET d == Head(ds)
           e == parseEventEntry([buffer |-> TRUE, bytes |-> BufferOf(d.p)])
       IN (IF d.kind = "buffer" /\ d.p.len >= 84
              /\ e.severityLevel >= minSeverity
           THEN <<MsgOf(e)>> ELSE <<>>)
          \o MessagesDue(Tail(ds))

\* C23: the messages a subscribe node has sent are exactly the decoded
\* records of the delivered buffers of at least 84 bytes that pass the
\* severity filter, in delivery order and one per buffer, whatever
\* heartbeats, too-short buffers or failing notifications came in between.
C23_SentInOrder == sent = MessagesDue(received)

\* an event was sent after a too-short buffer and a failing notification,
\* and an earlier event was sent before them
C23_Witness ==
  /\ Len(received) = 3
  /\ received[1].kind = "buffer" /\ received[1].p.len >= 84
  /\ received[2].kind = "undefined" \/ received[2].p.len = 83
  /\ received[3].kind = "buffer" /\ received[3].p.len >= 84
  /\ Len(sent) = 2
  /\ sent[1] # sent[2]

\* the severity byte of the notification handled last
SeverityByte == BufferOf(step.p)[37]

\* C24: a buffer of at least 84 bytes always decodes, and its severity is
\* read from the single byte at offset 36: the values 0..4 give the level of
\* the same number, named Verbose, Info, Warning, Error, Critical; the
\* values 5..255 give level 0, Verbose.
C24_SeverityMapping ==
  (step.op = "onEventData" /\ step.kind = "buffer" /\ step.p.len >= 84)
    => /\ step.entry # null
       /\ ~step.errored
       /\ SeverityByte = 0 => (step.entry.severityLevel = 0 /\ step.entry.severity = "Verbose")
       /\ SeverityByte = 1 => (step.entry.severityLevel = 1 /\ step.entry.severity = "Info")
       /\ SeverityByte = 2 => (step.entry.severityLevel = 2 /\ step.entry.severity = "Warning")
       /\ SeverityByte = 3 => (step.entry.severityLevel = 3 /\ step.entry.severity = "Error")
       /\ SeverityByte = 4 => (step.entry.severityLevel = 4 /\ step.entry.severity = "Critical")
       /\ SeverityByte >= 5 => (step.entry.severityLevel = 0 /\ step.entry.severity = "Verbose")

\* a buffer with severity byte 255 was decoded as Verbose
C24_Witness ==
  /\ step.op = "onEventData"
  /\ step.kind = "buffer"
  /\ step.entry # null
  /\ SeverityByte = 255
  /\ step.entry.severity = "Verbose"

\* C25: a decoded event is sent exactly when its severity level is at least
\* the node's minSeverity; with the default minSeverity 0 every decoded
\* event is sent.
C25_SeverityFilter ==
  (step.op = "onEventData" /\ step.entry # null)
    => /\ step.out = <<MsgOf(step.entry)>> <=> step.entry.severityLevel >= minSeverity
       /\ step.out = <<>> <=> step.entry.severityLevel < minSeverity
       /\ minSeverity = 0 => step.out # <<>>

\* an event whose level equals a minSeverity above 0 was decoded and sent
C25_Witness ==
  /\ step.op = "onEventData"
  /\ step.entry # null
  /\ minSeverity = 3
  /\ step.entry.severityLevel = 3
  /\ Len(step.out) = 1

\* the 8 bytes from offset o of the notification handled last are all zero
EmptyField(o) == \A k \in 1..8 : BufferOf(step.p)[o + k] = 0

\* C26: in the record decoded from a buffer of at least 84 bytes, each of
\* timeRaised (offset 60), timeCleared (68) and timeConfirmed (76) is null
\* exactly when the 8 bytes of its field are all zero, and an instant
\* otherwise.
C26_EmptyTimestampIsNull ==
  (step.op = "onEventData" /\ step.kind = "buffer" /\ step.p.len >= 84)
    => /\ step.entry # null
       /\ step.entry.timeRaised = null <=> EmptyField(60)
       /\ step.entry.timeCleared = null <=> EmptyField(68)
       /\ step.entry.timeConfirmed = null <=> EmptyField(76)
       /\ ~EmptyField(60) => step.entry.timeRaised \in [low : Nat, high : Nat]
       /\ ~EmptyField(68) => step.entry.timeCleared \in [low : Nat, high : Nat]
       /\ ~EmptyField(76) => step.entry.timeConfirmed \in [low : Nat, high : Nat]

\* a record with an instant read from a field whose only set byte is the
\* last one, next to an empty field read as null
C26_Witness ==
  /\ step.op = "onEventData"
  /\ step.kind = "buffer"
  /\ step.entry # null
  /\ BufferOf(step.p)[68] = 1
  /\ step.entry.timeRaised # null
  /\ EmptyField(68)
  /\ step.entry.timeCleared = null

\* a byte as two lower-case hex digits
Hex2(x) == HexDigit[(x \div 16) + 1] \o HexDigit[(x % 16) + 1]

\* byte k (0..15) of the GUID the last parseGuid call was pointed at
GuidByte(k) == GuidBuffer(step.g, step.offset, step.len)[step.offset + k + 1]

\* C27: parseGuid renders 16 bytes as a 4-byte little-endian field, two
\* 2-byte little-endian fields, then a 2-byte and a 6-byte field in byte
\* order, each in zero-padded lower-case hex, joined by dashes; the bytes
\* 14 9f 0d 16 7e d9 62 44 af ad ea 4c d4 82 96 b4 at offset 0 give
\* 160d9f14-d97e-4462-afad-ea4cd48296b4; with fewer than 16 bytes from the
\* offset on it returns null.
C27_GuidFormat ==
  step.op = "parseGuid" =>
    /\ step.len < step.offset + 16 => step.guid = nullText
    /\ step.len >= step.offset + 16 =>
         step.guid =
           Hex2(GuidByte(3)) \o Hex2(GuidByte(2)) \o Hex2(GuidByte(1)) \o Hex2(GuidByte(0))
           \o "-" \o Hex2(GuidByte(5)) \o Hex2(GuidByte(4))
           \o "-" \o Hex2(GuidByte(7)) \o Hex2(GuidByte(6))
           \o "-" \o Hex2(GuidByte(8)) \o Hex2(GuidByte(9))
           \o "-" \o Hex2(GuidByte(10)) \o Hex2(GuidByte(11)) \o Hex2(GuidByte(12))
                  \o Hex2(GuidByte(13)) \o Hex2(GuidByte(14)) \o Hex2(GuidByte(15))
    /\ (step.g = 1 /\ step.offset = 0 /\ step.len >= 16) =>
         step.guid = "160d9f14-d97e-4462-afad-ea4cd48296b4"

\* the documented example was parsed from a 16-byte buffer
C27_Witness ==
  /\ step.op = "parseGuid"
  /\ step.g = 1
  /\ step.offset = 0
  /\ step.len = 16
  /\ step.guid = "160d9f14-d97e-4462-afad-ea4cd48296b4"

\* the identity key of a stored entry or a payload
KeyOf(e) == <<e.eventClass, e.eventId, toISOStr(e.timeRaised)>>

\* C28: the history holds at most one entry per key (eventClass, eventId,
\* timeRaised); an event whose key matches a stored entry leaves the number
\* of entries unchanged and overwrites that entry, at its position, with the
\* fields of the event.
C28_Deduplicated ==
  /\ \A i \in 1..Len(events) : \A j \in 1..Len(events) :
       KeyOf(events[i]) = KeyOf(events[j]) => i = j
  /\ (hstep.op = "addEvent" /\ hstep.idx >= 0) =>
       /\ Len(events) = hstep.len0
       /\ KeyOf(events[hstep.idx + 1]) = KeyOf(hstep.payload)
       /\ events[hstep.idx + 1].alarmState = hstep.payload.alarmState
       /\ events[hstep.idx + 1].timeCleared = hstep.payload.timeCleared
       /\ events[hstep.idx + 1].timeRaised = hstep.payload.timeRaised

\* a cleared event updated the first of two stored entries in place
C28_Witness ==
  /\ hstep.op = "addEvent"
  /\ hstep.idx = 0
  /\ Len(events) = 2
  /\ events[1].alarmState = "Cleared"
  /\ events[1].updated
  /\ ~events[2].updated

\* C29: the history never holds more than maxEvents entries, and an append
\* that overflows the limit keeps the most recent maxEvents entries in
\* arrival order (the oldest are discarded first).
C29_AtMostMaxEvents ==
  [][/\ Len(events') <= maxEvents'
     /\ (hstep'.op = "addEvent" /\ hstep'.idx < 0 /\ Len(events) + 1 > maxEvents)
          => events' = SubSeq(Append(events, EntryOf(hstep'.payload, FALSE)),
                              Len(events) + 2 - maxEvents, Len(events) + 1)]_vars

\* C30: on every buffer the test's parseEventEntry and the subscribe node's
\* return both null, or records that agree on eventClass, eventId,
\* severityLevel, severity, isAlarm, alarmState, the three timestamps,
\* sourceName and message.
C30_TestParserMirrors ==
  step.op = "parseEventEntry" =>
    \/ step.entry = null /\ step.mirror = null
    \/ /\ step.entry # null
       /\ step.mirror # null
       /\ step.entry.eventClass = step.mirror.eventClass
       /\ step.entry.eventId = step.mirror.eventId
       /\ step.entry.severityLevel = step.mirror.severityLevel
       /\ step.entry.severity = step.mirror.severity
       /\ step.entry.isAlarm = step.mirror.isAlarm
       /\ step.entry.alarmState = step.mirror.alarmState
       /\ step.entry.timeRaised = step.mirror.timeRaised
       /\ step.entry.timeCleared = step.mirror.timeCleared
       /\ step.entry.timeConfirmed = step.mirror.timeConfirmed
       /\ step.entry.sourceName = step.mirror.sourceName
       /\ step.entry.message = step.mirror.message

\* C31: subscriberCount is an accurate reference count: it equals the number
\* of live subscribe nodes registered with the connection node, one per
\* node however many "connected" events the node received, and a node that
\* never registered does not lower it when it closes.
C31_AccurateReferenceCount ==
  /\ registered \subseteq {n \in Nodes : nodeSt[n] = "live"}
  /\ subscriberCount = Cardinality(registered)

\* no subscribeRaw request and no unsubscribe() call awaits the transport,
\* and no "resubscribe" handler is between its unsubscribe() and subscribe()
NoRequestPending ==
  /\ subPending = {}
  /\ \A h \in Ids : UnsubscribeCalls(h) = 0
  /\ InputsInFlight = 0

\* C32: no subscription is held on behalf of nobody: whenever no subscribe or
\* unsubscribe request is pending, a stored handle implies
\* subscriberCount > 0, also after removeSubscriber brought the count to 0
\* while a subscribeRaw request was pending and that request then succeeded.
C32_NoHandleForNobody ==
  (NoRequestPending /\ subscription # 0) => subscriberCount > 0

\* C33: no registered subscriber is left without a subscription: whenever
\* the session is connected, subscriberCount > 0, no subscribe or unsubscribe
\* request is pending and the last subscribe request did not fail, a handle
\* is stored, also when addSubscriber was called while the unsubscribe
\* triggered by the count reaching 0 was still pending.
C33_SubscriberHasSubscription ==
  (/\ isConnected /\ connected
   /\ subscriberCount > 0
   /\ NoRequestPending
   /\ subscribing = 0
   /\ ~subFailed)
    => subscription # 0

====
